---- MODULE Spec2Model ----
(***************************************************************************)
(* A model of OggOpusMuxer (ogg-muxer.js): the packet accumulator, the     *)
(* page serializer and the CRC engine, byte for byte.                      *)
(*                                                                         *)
(* A byte buffer (Uint8Array) is a sequence of numbers in 0..255; offset i *)
(* of the JavaScript buffer is element i+1 of the sequence.  A 32-bit word *)
(* of the CRC code is held as its four bytes, most significant first,      *)
(* because a 32-bit unsigned value does not fit the checker's integers.    *)
(***************************************************************************)
EXTENDS Integers, Sequences, FiniteSets, TLC

VARIABLES
    sampleRate,        \* this.sampleRate
    channels,          \* this.channels
    serial,            \* this.serial
    pageSequence,      \* this.pageSequence
    granulePosition,   \* this.granulePosition
    pages,             \* this.pages: the finished pages, each a byte buffer
    packetBuffer,      \* this.packetBuffer: the pending packets
    packetSizes,       \* this.packetSizes
    segmentsInBuffer,  \* this.segmentsInBuffer
    error,             \* "none", or the exception the last call threw
    blob,              \* the bytes of the Blob the last getBlob returned
    flushTrace,        \* history: per pushed page, the buffer size, the table entries
                       \* written and the final write offset
    submitted,         \* history: every (data, samples) passed to addPacket, in call order
    emitLog,           \* history: per pushed page, whether a terminal flush pushed it and
                       \* how many packets had been passed before the call that pushed it
    lastCall,          \* history: the last call and what it saw on entry
    made,              \* history: how many calls the caller has made
    run                \* the optimizer (main.js): its run, the host's documents and files

vars == <<sampleRate, channels, serial, pageSequence, granulePosition, pages,
          packetBuffer, packetSizes, segmentsInBuffer, error, blob,
          flushTrace, submitted, emitLog, lastCall, made, run>>

(***************************************************************************)
(* Bounds of the model.                                                    *)
(***************************************************************************)
MaxCalls == 4        \* calls the caller makes on a muxer (a burst counts as one)
BurstSize == 254     \* one-byte packets added back to back in a burst
MaxBigCalls == 4     \* calls made when the first packet is an oversized one
MaxCrcCalls == 3     \* calls made where every checksum is recomputed bit by bit
MaxInvalidCalls == 3 \* calls made on a muxer constructed with a non-positive argument

(***************************************************************************)
(* Constants of the program.                                               *)
(***************************************************************************)
SegmentSize == 255       \* bytes per lacing segment
PageSegmentLimit == 255  \* segments a page may hold
HeaderSize == 27         \* the fixed page header
CrcOffset == 22          \* first byte of the checksum field
CrcEnd == 25             \* last byte of the checksum field

(***************************************************************************)
(* Bytes and 32-bit words.                                                 *)
(***************************************************************************)
\* Loops over long arrays are written over index ranges that are halved, with the
\* first half evaluated before the second (Then), so that the evaluation depth stays
\* logarithmic in the length; the order of the iterations is the loop's.
Then(first, Rest(_)) == IF first = first THEN Rest(first) ELSE Rest(first)

\* sizes.reduce((a, b) => a + b, 0) over elements lo..hi
RECURSIVE SumRange(_, _, _)
SumRange(s, lo, hi) ==
    IF lo > hi THEN 0
    ELSE IF lo = hi THEN s[lo]
    ELSE LET mid == (lo + hi) \div 2
         IN  SumRange(s, lo, mid) + SumRange(s, mid + 1, hi)

SumSeq(s) == SumRange(s, 1, Len(s))

\* the concatenation of the byte sequences lo..hi of ss
RECURSIVE FlattenRange(_, _, _)
FlattenRange(ss, lo, hi) ==
    IF lo > hi THEN <<>>
    ELSE IF lo = hi THEN ss[lo]
    ELSE LET mid == (lo + hi) \div 2
         IN  FlattenRange(ss, lo, mid) \o FlattenRange(ss, mid + 1, hi)

Flatten(ss) == FlattenRange(ss, 1, Len(ss))

Zeros(n) == [i \in 1..n |-> 0]

\* DataView.setUintN(offset, n, true): the low k bytes of n, least significant first
\* (two's complement for a negative n, as the conversion to an unsigned integer does).
RECURSIVE LEBytes(_, _)
LEBytes(n, k) == IF k = 0 THEN <<>> ELSE <<n % 256>> \o LEBytes(n \div 256, k - 1)

\* String.charCodeAt over an ASCII string
OggS == <<79, 103, 103, 83>>
OpusHeadMagic == <<79, 112, 117, 115, 72, 101, 97, 100>>
OpusTagsMagic == <<79, 112, 117, 115, 84, 97, 103, 115>>
Vendor == <<71, 101, 97, 110, 111, 32, 83, 99, 101, 110, 101, 32,
            79, 112, 116, 105, 109, 105, 122, 101, 114>>

RECURSIVE BitXor(_, _, _)
BitXor(a, b, k) ==
    IF k = 0 THEN 0 ELSE ((a + b) % 2) + 2 * BitXor(a \div 2, b \div 2, k - 1)

XorNibble == [a \in 0..15 |-> [b \in 0..15 |-> BitXor(a, b, 4)]]

\* a ^ b on two bytes
XorByte(a, b) == 16 * XorNibble[a \div 16][b \div 16] + XorNibble[a % 16][b % 16]

\* u ^ v on two 32-bit words
XorWord(u, v) ==
    <<XorByte(u[1], v[1]), XorByte(u[2], v[2]), XorByte(u[3], v[3]), XorByte(u[4], v[4])>>

\* w << 1 on a 32-bit word
Shl1(w) ==
    <<((2 * w[1]) % 256) + (w[2] \div 128), ((2 * w[2]) % 256) + (w[3] \div 128),
      ((2 * w[3]) % 256) + (w[4] \div 128), (2 * w[4]) % 256>>

\* w << 8 on a 32-bit word
Shl8(w) == <<w[2], w[3], w[4], 0>>

\* 0x04c11db7
Polynomial == <<4, 193, 29, 183>>

ZeroWord == <<0, 0, 0, 0>>

(***************************************************************************)
(* The CRC engine.                                                         *)
(***************************************************************************)
RECURSIVE CrcTableLoop(_, _)
CrcTableLoop(c, k) ==
    IF k = 8 THEN c
    ELSE CrcTableLoop(IF c[1] >= 128 THEN XorWord(Polynomial, Shl1(c)) ELSE Shl1(c), k + 1)

_makeCRCTable == [n \in 0..255 |-> CrcTableLoop(<<n, 0, 0, 0>>, 0)]

crcTable == _makeCRCTable

\* one iteration of the loop of _calculateCRC, at offset i of the buffer
CrcStep(crc, buffer, i) ==
    IF i >= CrcOffset /\ i <= CrcEnd
    THEN XorWord(Shl8(crc), crcTable[XorByte(crc[1], 0)])
    ELSE XorWord(Shl8(crc), crcTable[XorByte(crc[1], buffer[i + 1])])

\* the iterations at offsets lo..hi, in order
RECURSIVE CrcLoop(_, _, _, _)
CrcLoop(crc, buffer, lo, hi) ==
    IF lo > hi THEN crc
    ELSE IF lo = hi THEN CrcStep(crc, buffer, lo)
    ELSE LET mid == (lo + hi) \div 2
             Rest(first) == CrcLoop(first, buffer, mid + 1, hi)
         IN  Then(CrcLoop(crc, buffer, lo, mid), Rest)

_calculateCRC(buffer) == CrcLoop(ZeroWord, buffer, 0, Len(buffer) - 1)

\* (littleEndian left out: most significant byte first)
WordLE_BigEndian(w) == w

\* view.setUint32(22, crc, true): the four bytes of the word, least significant first
WordLE(w) == <<w[4], w[3], w[2], w[1]>>

(***************************************************************************)
(* The muxer's operations, on a record m of its fields.                    *)
(***************************************************************************)
\* the inner loop of flushPage, `while (size >= least) { write 255; size -= 255 }`,
\* from the state st = [out, size] for at most `fuel` iterations
RECURSIVE LacingLoop(_, _, _)
LacingLoop(st, fuel, least) ==
    IF fuel = 0 \/ st.size < least THEN st
    ELSE IF fuel = 1 THEN [out |-> Append(st.out, 255), size |-> st.size - 255]
    ELSE LET Rest(first) == LacingLoop(first, fuel - (fuel \div 2), least)
         IN  Then(LacingLoop(st, fuel \div 2, least), Rest)

\* (while (size > 255): a packet of an exact multiple of 255 bytes ends in a 255)
LacingOf_GreaterThan(size) ==
    LET st == LacingLoop([out |-> <<>>, size |-> size], size, SegmentSize + 1)
    IN  Append(st.out, st.size)

\* the lacing values flushPage writes for one packet size: the loop (which ends within
\* `size` iterations, each taking 255 off), then the remaining size
LacingOf(size) ==
    LET st == LacingLoop([out |-> <<>>, size |-> size], size, SegmentSize)
    IN  Append(st.out, st.size)

\* the segment table flushPage writes for the sizes lo..hi
RECURSIVE SegmentTableRange(_, _, _)
SegmentTableRange(sizes, lo, hi) ==
    IF lo > hi THEN <<>>
    ELSE IF lo = hi THEN LacingOf(sizes[lo])
    ELSE LET mid == (lo + hi) \div 2
         IN  SegmentTableRange(sizes, lo, mid) \o SegmentTableRange(sizes, mid + 1, hi)

SegmentTable(sizes) == SegmentTableRange(sizes, 1, Len(sizes))

\* (a header taken to be 26 bytes long)
PageSizeOf_ShortHeader(numSegments, dataSize) == (HeaderSize - 1) + numSegments + dataSize

\* the size of the buffer flushPage allocates
PageSizeOf(numSegments, dataSize) == HeaderSize + numSegments + dataSize

\* (isLast ignored: the end-of-stream bit never set)
HeaderTypeOf_NoEos(seq, isLast) == IF seq = 0 THEN 2 ELSE 0

\* (the beginning-of-stream bit also on the second page)
HeaderTypeOf_BosOffByOne(seq, isLast) ==
    (IF seq <= 1 THEN 2 ELSE 0) + (IF isLast THEN 4 ELSE 0)

\* the header type flushPage writes: 0x02 beginning of stream, 0x04 end of stream
HeaderTypeOf(seq, isLast) == (IF seq = 0 THEN 2 ELSE 0) + (IF isLast THEN 4 ELSE 0)

\* (++this.pageSequence: the incremented value is written)
SequenceWritten_PreIncrement(seq) == seq + 1

\* the sequence number flushPage writes (this.pageSequence++ yields the old value)
SequenceWritten(seq) == seq

\* step 2 of flushPage: the 27 header bytes, the checksum still zero; setUint8 keeps
\* the low byte of the segment count
PageHeader(m, isLast) ==
    OggS \o <<0>> \o <<HeaderTypeOf(m.pageSequence, isLast)>>
        \o LEBytes(m.granulePosition, 8)
        \o LEBytes(m.serial, 4)
        \o LEBytes(SequenceWritten(m.pageSequence), 4)
        \o <<0, 0, 0, 0>>
        \o <<m.segmentsInBuffer % 256>>

\* view.setUint32(22, crc, true) on the buffer
Patched(buffer, crc) ==
    SubSeq(buffer, 1, CrcOffset) \o WordLE(crc) \o SubSeq(buffer, CrcEnd + 2, Len(buffer))

\* step 5 of flushPage
SealPage(buffer) == Patched(buffer, _calculateCRC(buffer))

\* (this.pages.unshift(buffer): the page put first)
Pushed_Unshift(m, page, pageSize, segments, offset) ==
    [m EXCEPT !.pageSequence = @ + 1,
              !.pages = <<page>> \o @,
              !.packetBuffer = <<>>,
              !.packetSizes = <<>>,
              !.segmentsInBuffer = 0,
              !.flushTrace = Append(@, [pageSize |-> pageSize, segments |-> segments,
                                        offset |-> offset])]

\* (the reset of segmentsInBuffer left out)
Pushed_KeepCount(m, page, pageSize, segments, offset) ==
    [m EXCEPT !.pageSequence = @ + 1,
              !.pages = Append(@, page),
              !.packetBuffer = <<>>,
              !.packetSizes = <<>>,
              !.flushTrace = Append(@, [pageSize |-> pageSize, segments |-> segments,
                                        offset |-> offset])]

\* (the granule position reset together with the pending buffer)
Pushed_ResetGranule(m, page, pageSize, segments, offset) ==
    [m EXCEPT !.pageSequence = @ + 1,
              !.pages = Append(@, page),
              !.packetBuffer = <<>>,
              !.packetSizes = <<>>,
              !.segmentsInBuffer = 0,
              !.granulePosition = 0,
              !.flushTrace = Append(@, [pageSize |-> pageSize, segments |-> segments,
                                        offset |-> offset])]

\* the end of flushPage: the page is pushed, the pending buffer reset
Pushed(m, page, pageSize, segments, offset) ==
    [m EXCEPT !.pageSequence = @ + 1,
              !.pages = Append(@, page),
              !.packetBuffer = <<>>,
              !.packetSizes = <<>>,
              !.segmentsInBuffer = 0,
              !.flushTrace = Append(@, [pageSize |-> pageSize, segments |-> segments,
                                        offset |-> offset])]

\* a write past the end of the buffer throws a RangeError (setUint8 at an offset >=
\* pageSize, Uint8Array.set where offset + length > pageSize; the offsets only grow, so
\* the last write of each loop decides); pageSequence has been incremented by then
Thrown(m) == [m EXCEPT !.pageSequence = @ + 1, !.error = "RangeError"]

\* steps 2 to 5 of flushPage, for the segment table and the payload it writes
WritePage(m, isLast, pageSize, table, data) ==
    IF /\ Len(table) = 0 \/ HeaderSize + Len(table) <= pageSize
       /\ Len(m.packetBuffer) = 0 \/ HeaderSize + Len(table) + Len(data) <= pageSize
    THEN Pushed(m,
                SealPage(PageHeader(m, isLast) \o table \o data
                           \o Zeros(pageSize - (HeaderSize + Len(table) + Len(data)))),
                pageSize, Len(table), HeaderSize + Len(table) + Len(data))
    ELSE Thrown(m)

\* (no early return: a flush always writes a page)
flushPage_AlwaysEmit(m, isLast) ==
    IF m.error # "none" THEN m
    ELSE WritePage(m, isLast,
                   PageSizeOf(m.segmentsInBuffer, SumSeq(m.packetSizes)),
                   SegmentTable(m.packetSizes),
                   Flatten(m.packetBuffer))

\* (the early return taken whenever nothing is pending, terminal or not)
flushPage_SkipEmpty(m, isLast) ==
    IF m.error # "none" THEN m
    ELSE IF Len(m.packetBuffer) = 0 THEN m
    ELSE WritePage(m, isLast,
                   PageSizeOf(m.segmentsInBuffer, SumSeq(m.packetSizes)),
                   SegmentTable(m.packetSizes),
                   Flatten(m.packetBuffer))

\* a call on a muxer whose caller's call has thrown does not run
flushPage(m, isLast) ==
    IF m.error # "none" THEN m
    ELSE IF Len(m.packetBuffer) = 0 /\ ~isLast THEN m
    ELSE WritePage(m, isLast,
                   PageSizeOf(m.segmentsInBuffer, SumSeq(m.packetSizes)),
                   SegmentTable(m.packetSizes),
                   Flatten(m.packetBuffer))

NumSegmentsOf(size) == (size \div SegmentSize) + 1

\* the second half of addPacket
Accept(m, packetData, samples) ==
    IF m.error # "none" THEN m
    ELSE [m EXCEPT !.packetBuffer = Append(@, packetData),
                   !.packetSizes = Append(@, Len(packetData)),
                   !.segmentsInBuffer = @ + NumSegmentsOf(Len(packetData)),
                   !.granulePosition = @ + samples]

\* (the samples counted before the flush)
addPacket_GranuleFirst(m, packetData, samples) ==
    Accept(IF m.segmentsInBuffer + NumSegmentsOf(Len(packetData)) > PageSegmentLimit
           THEN flushPage([m EXCEPT !.granulePosition = @ + samples], FALSE)
           ELSE [m EXCEPT !.granulePosition = @ + samples],
           packetData, 0)

\* (a return after the flush: the packet that did not fit is lost)
addPacket_DropOnFlush(m, packetData, samples) ==
    IF m.segmentsInBuffer + NumSegmentsOf(Len(packetData)) > PageSegmentLimit
    THEN flushPage(m, FALSE)
    ELSE Accept(m, packetData, samples)

\* (>= for >: the flush comes one segment early)
addPacket_FlushAtLimit(m, packetData, samples) ==
    Accept(IF m.segmentsInBuffer + NumSegmentsOf(Len(packetData)) >= PageSegmentLimit
           THEN flushPage(m, FALSE) ELSE m,
           packetData, samples)

addPacket(m, packetData, samples) ==
    Accept(IF m.segmentsInBuffer + NumSegmentsOf(Len(packetData)) > PageSegmentLimit
           THEN flushPage(m, FALSE) ELSE m,
           packetData, samples)

\* (the flag forgotten)
getBlob_NotLast(m) == flushPage(m, FALSE)

\* the part of getBlob that changes the muxer
getBlob(m) == flushPage(m, TRUE)

\* new Blob(this.pages): the parts, concatenated
BlobOf(m) == Flatten(m.pages)

IdHeader(rate, chans) ==
    OpusHeadMagic \o <<1>> \o LEBytes(chans, 1) \o LEBytes(0, 2)
        \o LEBytes(rate, 4) \o LEBytes(0, 2) \o <<0>>

\* (the flush left out: the identification packet waits for the comment packet)
_writeIdHeader_NoFlush(m) == addPacket(m, IdHeader(m.sampleRate, m.channels), 0)

_writeIdHeader(m) == flushPage(addPacket(m, IdHeader(m.sampleRate, m.channels), 0), FALSE)

CommentHeader ==
    OpusTagsMagic \o LEBytes(Len(Vendor), 4) \o Vendor \o LEBytes(0, 4)

_writeCommentHeader(m) == flushPage(addPacket(m, CommentHeader, 0), FALSE)

constructor(rate, chans, ser) ==
    _writeCommentHeader(_writeIdHeader(
        [sampleRate |-> rate, channels |-> chans, serial |-> ser,
         pageSequence |-> 0, granulePosition |-> 0, pages |-> <<>>,
         packetBuffer |-> <<>>, packetSizes |-> <<>>, segmentsInBuffer |-> 0,
         error |-> "none", flushTrace |-> <<>>]))

(***************************************************************************)
(* The caller.  A harness record h holds the muxer m and the history of    *)
(* the calls made on it.                                                   *)
(***************************************************************************)
\* what a call saw on entry; size is -1 and isLast FALSE where they do not apply
Entry(op, size, isLast, m) ==
    [op |-> op, size |-> size, isLast |-> isLast,
     segmentsBefore |-> m.segmentsInBuffer,
     pendingBefore |-> Len(m.packetBuffer),
     pagesBefore |-> Len(m.pages)]

\* a call that left the muxer as `after`: the pages it pushed are logged with whether
\* the call was a terminal flush (flushPage(true) or getBlob) and how many packets had
\* been passed before it
Called(h, after, terminal, entry) ==
    [h EXCEPT !.m = after,
              !.emitLog = @ \o [i \in 1..(Len(after.pages) - Len(h.m.pages)) |->
                                  [terminal |-> terminal, packets |-> Len(h.submitted)]],
              !.lastCall = entry]

Passed(h, packetData, samples) ==
    [h EXCEPT !.submitted = Append(@, [data |-> packetData, samples |-> samples])]

CallAddPacket(h, packetData, samples) ==
    Passed(Called(h, addPacket(h.m, packetData, samples), FALSE,
                  Entry("addPacket", Len(packetData), FALSE, h.m)),
           packetData, samples)

CallFlushPage(h, isLast) ==
    Called(h, flushPage(h.m, isLast), isLast, Entry("flushPage", -1, isLast, h.m))

Returned(h) == [h EXCEPT !.blob = BlobOf(h.m)]

CallGetBlob(h) ==
    Returned(Called(h, getBlob(h.m), TRUE, Entry("getBlob", -1, TRUE, h.m)))

\* the history after new OggOpusMuxer(rate, chans): the header packets count as passed
Constructed(after, rate, chans) ==
    [m |-> after,
     blob |-> <<>>,
     submitted |-> <<[data |-> IdHeader(rate, chans), samples |-> 0],
                     [data |-> CommentHeader, samples |-> 0]>>,
     emitLog |-> [i \in 1..Len(after.pages) |-> [terminal |-> FALSE, packets |-> i]],
     lastCall |-> [op |-> "constructor", size |-> -1, isLast |-> FALSE,
                   segmentsBefore |-> 0, pendingBefore |-> 0, pagesBefore |-> 0],
     made |-> 0]

\* new OggOpusMuxer(rate, chans), with the random serial number drawn as ser
CallConstructor(rate, chans, ser) == Constructed(constructor(rate, chans, ser), rate, chans)

\* the packet the caller passes as its k-th: size bytes, stamped with k
PacketData(size, k) == [i \in 1..size |-> (31 * k + i) % 256]

\* n one-byte packets of 960 samples each, added back to back
RECURSIVE CallBurst(_, _)
CallBurst(h, n) ==
    IF n = 0 THEN h
    ELSE IF n = 1 THEN CallAddPacket(h, PacketData(1, Len(h.submitted)), 960)
    ELSE LET Rest(first) == CallBurst(first, n - (n \div 2))
         IN  Then(CallBurst(h, n \div 2), Rest)

\* no optimizer run is modelled next to the muxer's callers
NoRun == [phase |-> "none"]

Harness ==
    [m |-> [sampleRate |-> sampleRate, channels |-> channels, serial |-> serial,
            pageSequence |-> pageSequence, granulePosition |-> granulePosition,
            pages |-> pages, packetBuffer |-> packetBuffer, packetSizes |-> packetSizes,
            segmentsInBuffer |-> segmentsInBuffer, error |-> error,
            flushTrace |-> flushTrace],
     blob |-> blob, submitted |-> submitted, emitLog |-> emitLog,
     lastCall |-> lastCall, made |-> made]

\* the next state is the harness record h
BecomesMuxer(h) ==
    /\ sampleRate' = h.m.sampleRate
    /\ channels' = h.m.channels
    /\ serial' = h.m.serial
    /\ pageSequence' = h.m.pageSequence
    /\ granulePosition' = h.m.granulePosition
    /\ pages' = h.m.pages
    /\ packetBuffer' = h.m.packetBuffer
    /\ packetSizes' = h.m.packetSizes
    /\ segmentsInBuffer' = h.m.segmentsInBuffer
    /\ error' = h.m.error
    /\ flushTrace' = h.m.flushTrace
    /\ blob' = h.blob
    /\ submitted' = h.submitted
    /\ emitLog' = h.emitLog
    /\ lastCall' = h.lastCall
    /\ made' = h.made

\* the same, next to an optimizer whose state stays
Becomes(h) == BecomesMuxer(h) /\ run' = run

StartsMuxer(h) ==
    /\ sampleRate = h.m.sampleRate
    /\ channels = h.m.channels
    /\ serial = h.m.serial
    /\ pageSequence = h.m.pageSequence
    /\ granulePosition = h.m.granulePosition
    /\ pages = h.m.pages
    /\ packetBuffer = h.m.packetBuffer
    /\ packetSizes = h.m.packetSizes
    /\ segmentsInBuffer = h.m.segmentsInBuffer
    /\ error = h.m.error
    /\ flushTrace = h.m.flushTrace
    /\ blob = h.blob
    /\ submitted = h.submitted
    /\ emitLog = h.emitLog
    /\ lastCall = h.lastCall
    /\ made = h.made

\* the same, with no optimizer next to the muxer
Starts(h) == StartsMuxer(h) /\ run = NoRun

(***************************************************************************)
(* Inputs.                                                                 *)
(***************************************************************************)
\* (sampleRate, numberOfChannels, serial) of the constructions tried
Constructions == {<<48000, 2, 305419896>>}

\* (byte length, samples) of the packets the caller adds one at a time
PacketKinds == {<<0, 0>>, <<510, 480>>}

\* the same for a packet that needs 256 segments by itself
BigPacketKinds == {<<65025, 960>>}

(***************************************************************************)
(* The specification: any calls, in any order, within the bounds.          *)
(***************************************************************************)
Running(limit) == error = "none" /\ made < limit

\* the call has been made
Made(h) == Becomes([h EXCEPT !.made = @ + 1])

Init == \E c \in Constructions : Starts(CallConstructor(c[1], c[2], c[3]))

AddPacket(limit) ==
    /\ Running(limit)
    /\ \E kind \in PacketKinds :
          Made(CallAddPacket(Harness, PacketData(kind[1], Len(submitted)), kind[2]))

AddBurst(limit) ==
    /\ Running(limit)
    /\ Made(CallBurst(Harness, BurstSize))

FlushPage(limit) ==
    /\ Running(limit)
    /\ \E isLast \in BOOLEAN : Made(CallFlushPage(Harness, isLast))

GetBlob(limit) ==
    /\ Running(limit)
    /\ Made(CallGetBlob(Harness))

Next ==
    \/ AddPacket(MaxCalls)
    \/ AddBurst(MaxCalls)
    \/ FlushPage(MaxCalls)
    \/ GetBlob(MaxCalls)

Spec == Init /\ [][Next]_vars

(***************************************************************************)
(* The same calls (without the burst) when the caller's first packet is    *)
(* one that needs 256 lacing segments.                                     *)
(***************************************************************************)
AddBigPacket ==
    /\ Running(MaxBigCalls)
    /\ made = 0
    /\ \E kind \in BigPacketKinds :
          Made(CallAddPacket(Harness, PacketData(kind[1], Len(submitted)), kind[2]))

NextBig ==
    \/ AddBigPacket
    \/ AddPacket(MaxBigCalls)
    \/ FlushPage(MaxBigCalls)
    \/ GetBlob(MaxBigCalls)

SpecBig == Init /\ [][NextBig]_vars

(***************************************************************************)
(* The same calls (without the burst) over shorter runs.                   *)
(***************************************************************************)
NextCrc ==
    \/ AddPacket(MaxCrcCalls)
    \/ FlushPage(MaxCrcCalls)
    \/ GetBlob(MaxCrcCalls)

SpecCrc == Init /\ [][NextCrc]_vars

(***************************************************************************)
(* The same calls (without the burst) on a muxer constructed with a zero   *)
(* or negative sample rate or channel count.                               *)
(***************************************************************************)
\* (sampleRate, numberOfChannels, serial) with one non-positive argument
InvalidConstructions ==
    {<<0, 2, 305419896>>, <<48000, 0, 305419896>>,
     <<-48000, 2, 305419896>>, <<48000, -1, 305419896>>}

InitInvalid == \E c \in InvalidConstructions : Starts(CallConstructor(c[1], c[2], c[3]))

NextInvalid ==
    \/ AddPacket(MaxInvalidCalls)
    \/ FlushPage(MaxInvalidCalls)
    \/ GetBlob(MaxInvalidCalls)

SpecInvalid == InitInvalid /\ [][NextInvalid]_vars

(***************************************************************************)
(* The optimizer (SceneOptimizer, main.js).  A string is the sequence of   *)
(* its characters.  The host is the documents (a scene's background.src, a *)
(* sound's path) and the files of the data store, each either as it was    *)
(* before the run ("original") or written by an upload ("converted").      *)
(***************************************************************************)
Max(S) == CHOOSE x \in S : \A y \in S : y <= x
Min(S) == CHOOSE x \in S : \A y \in S : x <= y

\* String.lastIndexOf and indexOf, counted from 1: 0 where JavaScript gives -1
LastIndexOf(str, c) ==
    IF \E i \in 1..Len(str) : str[i] = c THEN Max({i \in 1..Len(str) : str[i] = c}) ELSE 0

IndexOf(str, c) ==
    IF \E i \in 1..Len(str) : str[i] = c THEN Min({i \in 1..Len(str) : str[i] = c}) ELSE 0

\* decodeURIComponent, for the one escape the paths tried contain (%20)
RECURSIVE decodeURIComponent(_)
decodeURIComponent(str) ==
    IF str = <<>> THEN <<>>
    ELSE IF Len(str) >= 3 /\ SubSeq(str, 1, 3) = <<"%", "2", "0">>
    THEN <<" ">> \o decodeURIComponent(SubSeq(str, 4, Len(str)))
    ELSE <<Head(str)>> \o decodeURIComponent(Tail(str))

\* pathParts = path.split("/"); fileName = pathParts.pop(); folderPath = pathParts.join("/")
FileNameOf(path) == SubSeq(path, LastIndexOf(path, "/") + 1, Len(path))
FolderPathOf(path) == SubSeq(path, 1, LastIndexOf(path, "/") - 1)

\* fileName.substring(0, fileName.lastIndexOf(".")): empty when there is no dot
NameWithoutExt(fileName) == SubSeq(fileName, 1, LastIndexOf(fileName, ".") - 1)

\* path.split("?")[0]
BeforeQuery(path) ==
    IF IndexOf(path, "?") = 0 THEN path ELSE SubSeq(path, 1, IndexOf(path, "?") - 1)

\* path.split('.').pop() (the paths tried are lower case, as toLowerCase leaves them)
ExtensionOf(path) == SubSeq(path, LastIndexOf(path, ".") + 1, Len(path))

Webp == <<"w", "e", "b", "p">>
Webm == <<"w", "e", "b", "m">>
Ogg == <<"o", "g", "g">>

\* isOptimized of _analyzeScenes and of _processAudioItem
SceneIsOptimized(src) == ExtensionOf(decodeURIComponent(src)) \in {Webp, Webm}
AudioIsOptimized(path) == ExtensionOf(decodeURIComponent(path)) \in {Webm, Ogg}

\* the file of the data store a path names
FileOf(path) == decodeURIComponent(BeforeQuery(path))

\* FilePicker.upload("data", folderPath, file): the file folderPath/name is written,
\* in place of a file of that name if there is one
Uploaded(files, folderPath, name) ==
    [f \in (DOMAIN files) \cup {folderPath \o <<"/">> \o name} |->
        IF f = folderPath \o <<"/">> \o name THEN "converted" ELSE files[f]]

\* result.path || `${folderPath}/${newFileName}`: the host answers with the path it
\* stored the file at
NewPathOf(folderPath, newFileName) == folderPath \o <<"/">> \o newFileName

\* what may happen in one iteration: the conversion throws or gives no blob, the
\* upload throws, the update of the document throws, or all succeed
Outcomes == {"convertThrows", "emptyBlob", "uploadThrows", "updateThrows", "ok"}

\* one iteration of the loop of _runSceneOptimization, for the scene `id`
SceneIteration(r, id, outcome) ==
    LET originalPath == r.docs[id]
        decodedPath == decodeURIComponent(originalPath)
        folderPath == FolderPathOf(decodedPath)
        newFileName == NameWithoutExt(FileNameOf(decodedPath)) \o <<".">> \o Webp
        newPath == NewPathOf(folderPath, newFileName)
    IN  IF outcome \in {"convertThrows", "emptyBlob", "uploadThrows"} THEN r
        ELSE IF outcome = "updateThrows"
        THEN [r EXCEPT !.files = Uploaded(@, folderPath, newFileName)]
        ELSE [r EXCEPT !.files = Uploaded(@, folderPath, newFileName),
                       !.docs[id] = newPath,
                       !.repointed = IF FileOf(newPath) # FileOf(originalPath)
                                     THEN @ \cup {FileOf(originalPath)} ELSE @,
                       !.orphanedFiles = IF BeforeQuery(originalPath) # BeforeQuery(newPath)
                                         THEN Append(@, originalPath) ELSE @]

\* one iteration of the loop of _runAudioOptimization, for the item of audioData
AudioIteration(r, item, outcome) ==
    LET folderPath == FolderPathOf(item.path)
        newFileName == NameWithoutExt(FileNameOf(item.path)) \o <<".">> \o Ogg
        newPath == NewPathOf(folderPath, newFileName)
    IN  IF outcome \in {"convertThrows", "emptyBlob", "uploadThrows"} THEN r
        ELSE IF outcome = "updateThrows"
        THEN [r EXCEPT !.files = Uploaded(@, folderPath, newFileName)]
        ELSE [r EXCEPT !.files = Uploaded(@, folderPath, newFileName),
                       !.docs[item.id] = newPath,
                       !.repointed = IF FileOf(newPath) # FileOf(item.path)
                                     THEN @ \cup {FileOf(item.path)} ELSE @,
                       !.orphanedFiles = IF item.path # newPath
                                         THEN Append(@, item.path) ELSE @]

\* background.src of the scenes tried: "m/a.png", "m/a.webp", "m/b%20c.jpg", "m/a.png?1"
ScenePaths ==
    {<<"m", "/", "a", ".", "p", "n", "g">>,
     <<"m", "/", "a", ".", "w", "e", "b", "p">>,
     <<"m", "/", "b", "%", "2", "0", "c", ".", "j", "p", "g">>,
     <<"m", "/", "a", ".", "p", "n", "g", "?", "1">>}

\* path of the sounds tried: "s/t.mp3", "s/t.ogg"
AudioPaths ==
    {<<"s", "/", "t", ".", "m", "p", "3">>,
     <<"s", "/", "t", ".", "o", "g", "g">>}

\* the scenes of the world and its one playlist sound
SceneIds == <<"s1", "s2">>
SoundId == "p1"

\* the elements of ids that are in the set chosen, in the order of ids
RECURSIVE Selected(_, _)
Selected(ids, chosen) ==
    IF ids = <<>> THEN <<>>
    ELSE (IF Head(ids) \in chosen THEN <<Head(ids)>> ELSE <<>>) \o Selected(Tail(ids), chosen)

\* no muxer is in use while the optimizer's run is modelled
MuxerAbsent ==
    /\ sampleRate = 0 /\ channels = 0 /\ serial = 0
    /\ pageSequence = 0 /\ granulePosition = 0
    /\ pages = <<>> /\ packetBuffer = <<>> /\ packetSizes = <<>> /\ segmentsInBuffer = 0
    /\ error = "none" /\ blob = <<>>
    /\ flushTrace = <<>> /\ submitted = <<>> /\ emitLog = <<>>
    /\ lastCall = [op |-> "none"] /\ made = 0

muxerVars == <<sampleRate, channels, serial, pageSequence, granulePosition, pages,
               packetBuffer, packetSizes, segmentsInBuffer, error, blob,
               flushTrace, submitted, emitLog, lastCall, made>>

\* what an invocation of _onOptimizeClick keeps in local variables: where it is, the
\* targets left, `completed` of the loop it is in and totalItems
NotStarted == [phase |-> "idle", scenes |-> <<>>, audio |-> <<>>, completed |-> 0, total |-> 0]

\* the world before the click: two scenes and a playlist sound, analysed
InitRun ==
    /\ MuxerAbsent
    /\ \E b1 \in ScenePaths, b2 \in ScenePaths, t \in AudioPaths :
          run = [phase |-> "idle",
                 docs |-> [d \in {"s1", "s2", SoundId} |->
                             IF d = "s1" THEN b1 ELSE IF d = "s2" THEN b2 ELSE t],
                 files |-> [f \in {FileOf(b1), FileOf(b2), FileOf(t)} |-> "original"],
                 audioData |-> <<[id |-> SoundId, type |-> "playlist",
                                  path |-> decodeURIComponent(t)]>>,
                 scenes |-> <<>>, audio |-> <<>>, completed |-> 0, total |-> 0,
                 isOptimizing |-> FALSE, progressValue |-> 0, progressMax |-> 0,
                 orphanedFiles |-> <<>>, originals |-> {}, repointed |-> {},
                 targets |-> <<>>, attempted |-> <<>>, failures |-> 0, skipped |-> FALSE,
                 other |-> NotStarted, started |-> 0]

\* _onOptimizeClick up to its first await, on the state r shared by the invocations
Clicked(r, total) ==
    [r EXCEPT !.isOptimizing = TRUE,
              !.orphanedFiles = <<>>,
              !.progressValue = 0,
              !.progressMax = total,
              !.started = @ + 1]

\* _onOptimizeClick up to the first await: the ids the form submits are taken as they
\* are (with none selected the handler returns with a warning and changes nothing)
OptimizeClick ==
    /\ run.phase = "idle"
    /\ \E sceneIds \in SUBSET {"s1", "s2"}, audioIds \in SUBSET {SoundId} :
          /\ sceneIds \cup audioIds # {}
          /\ run' = [Clicked(run, Cardinality(sceneIds \cup audioIds)) EXCEPT
                !.phase = "starting",
                !.scenes = Selected(SceneIds, sceneIds),
                !.audio = IF SoundId \in audioIds THEN run.audioData ELSE <<>>,
                !.total = Cardinality(sceneIds \cup audioIds),
                !.targets = Selected(SceneIds \o <<SoundId>>, sceneIds \cup audioIds),
                !.originals = {FileOf(run.docs[d]) : d \in sceneIds \cup audioIds}]
    /\ UNCHANGED muxerVars

\* after the first wait: _runSceneOptimization reads `completed` from the progress
SceneStart ==
    /\ run.phase = "starting"
    /\ run' = [run EXCEPT !.phase = "scenes",
                          !.completed = IF run.scenes # <<>> THEN run.progressValue ELSE @]
    /\ UNCHANGED muxerVars

\* (the try around the loop instead of inside it: a throw ends the loop)
RemainingAfter_StopOnThrow(queue, outcome) ==
    IF outcome \in {"convertThrows", "uploadThrows", "updateThrows"} THEN <<>> ELSE Tail(queue)

\* for (const item of items): the catch is inside the loop, the next item follows
RemainingAfter(queue, outcome) == Tail(queue)

\* the end of an iteration: completed++ and _updateProgress(completed)
Progressed(r, completed) == [r EXCEPT !.progressValue = completed + 1]

\* history: the item was attempted, and whether it failed
Attempted(r, id, outcome) ==
    [r EXCEPT !.attempted = Append(@, id),
              !.failures = IF outcome = "ok" THEN @ ELSE @ + 1]

SceneStep ==
    /\ run.phase = "scenes" /\ run.scenes # <<>>
    /\ \E outcome \in Outcomes :
          run' = [Attempted(Progressed(SceneIteration(run, Head(run.scenes), outcome),
                                       run.completed),
                            Head(run.scenes), outcome)
                    EXCEPT !.scenes = RemainingAfter(@, outcome),
                           !.completed = @ + 1]
    /\ UNCHANGED muxerVars

\* the start of _runAudioOptimization (not called with no audio target): `completed`
\* is read from the progress; without window.AudioEncoder it returns at once
AudioStart ==
    /\ run.phase = "scenes" /\ run.scenes = <<>>
    /\ \E supported \in BOOLEAN :
          run' = [run EXCEPT !.phase = "audio",
                             !.completed = IF run.audio # <<>> THEN run.progressValue ELSE @,
                             !.skipped = run.audio # <<>> /\ ~supported,
                             !.audio = IF supported THEN @ ELSE <<>>]
    /\ UNCHANGED muxerVars

AudioStep ==
    /\ run.phase = "audio" /\ run.audio # <<>>
    /\ \E outcome \in Outcomes :
          run' = [Attempted(Progressed(AudioIteration(run, Head(run.audio), outcome),
                                       run.completed),
                            Head(run.audio).id, outcome)
                    EXCEPT !.audio = RemainingAfter(@, outcome),
                           !.completed = @ + 1]
    /\ UNCHANGED muxerVars

\* the end of _onOptimizeClick, for an invocation with `total` items
Finished(r, total) == [r EXCEPT !.isOptimizing = FALSE, !.progressValue = total]

RunDone ==
    /\ run.phase = "audio" /\ run.audio = <<>>
    /\ run' = [Finished(run, run.total) EXCEPT !.phase = "done"]
    /\ UNCHANGED muxerVars

NextRun ==
    \/ OptimizeClick
    \/ SceneStart
    \/ SceneStep
    \/ AudioStart
    \/ AudioStep
    \/ RunDone

SpecRun == InitRun /\ [][NextRun]_vars

(***************************************************************************)
(* Two invocations of _onOptimizeClick on one SceneOptimizer: the handler  *)
(* is bound to the button's click, and nothing in it looks at isOptimizing,*)
(* so a click that comes while an invocation is suspended at an await      *)
(* starts another one.  run.other holds the local variables of the second  *)
(* invocation; documents, files, orphanedFiles, progress and isOptimizing  *)
(* are the ones of the instance and of the world.                          *)
(***************************************************************************)
InitClicks ==
    /\ InitRun
    /\ run.docs["s1"] = <<"m", "/", "a", ".", "p", "n", "g">>
    /\ run.docs["s2"] = <<"m", "/", "b", "%", "2", "0", "c", ".", "j", "p", "g">>
    /\ run.docs[SoundId] = <<"s", "/", "t", ".", "m", "p", "3">>

OtherClick ==
    /\ run.phase # "idle" /\ run.other.phase = "idle"
    /\ \E sceneIds \in SUBSET {"s1", "s2"}, audioIds \in SUBSET {SoundId} :
          /\ sceneIds \cup audioIds # {}
          /\ run' = [Clicked(run, Cardinality(sceneIds \cup audioIds)) EXCEPT
                !.other = [phase |-> "starting",
                           scenes |-> Selected(SceneIds, sceneIds),
                           audio |-> IF SoundId \in audioIds THEN run.audioData ELSE <<>>,
                           completed |-> 0,
                           total |-> Cardinality(sceneIds \cup audioIds)]]
    /\ UNCHANGED muxerVars

OtherSceneStart ==
    /\ run.other.phase = "starting"
    /\ run' = [run EXCEPT !.other.phase = "scenes",
                          !.other.completed = IF run.other.scenes # <<>>
                                              THEN run.progressValue ELSE @]
    /\ UNCHANGED muxerVars

OtherSceneStep ==
    /\ run.other.phase = "scenes" /\ run.other.scenes # <<>>
    /\ \E outcome \in Outcomes :
          run' = [Progressed(SceneIteration(run, Head(run.other.scenes), outcome),
                             run.other.completed)
                    EXCEPT !.other.scenes = RemainingAfter(@, outcome),
                           !.other.completed = @ + 1]
    /\ UNCHANGED muxerVars

OtherAudioStart ==
    /\ run.other.phase = "scenes" /\ run.other.scenes = <<>>
    /\ \E supported \in BOOLEAN :
          run' = [run EXCEPT !.other.phase = "audio",
                             !.other.completed = IF run.other.audio # <<>>
                                                 THEN run.progressValue ELSE @,
                             !.other.audio = IF supported THEN @ ELSE <<>>]
    /\ UNCHANGED muxerVars

OtherAudioStep ==
    /\ run.other.phase = "audio" /\ run.other.audio # <<>>
    /\ \E outcome \in Outcomes :
          run' = [Progressed(AudioIteration(run, Head(run.other.audio), outcome),
                             run.other.completed)
                    EXCEPT !.other.audio = RemainingAfter(@, outcome),
                           !.other.completed = @ + 1]
    /\ UNCHANGED muxerVars

OtherDone ==
    /\ run.other.phase = "audio" /\ run.other.audio = <<>>
    /\ run' = [Finished(run, run.other.total) EXCEPT !.other.phase = "done"]
    /\ UNCHANGED muxerVars

NextClicks ==
    \/ OptimizeClick
    \/ SceneStart
    \/ SceneStep
    \/ AudioStart
    \/ AudioStep
    \/ RunDone
    \/ OtherClick
    \/ OtherSceneStart
    \/ OtherSceneStep
    \/ OtherAudioStart
    \/ OtherAudioStep
    \/ OtherDone

SpecClicks == InitClicks /\ [][NextClicks]_vars

(***************************************************************************)
(* _convertAudioToOggFast: the feeding loop, its timers, the AudioEncoder  *)
(* and the muxer the output callback feeds.  The encoder is the platform's:*)
(* encode() adds to its queue, it takes work from the queue in its own     *)
(* time, hands each encoded chunk to the output callback in a task of its  *)
(* own, resolves flush() once all that was queued has been output, and on  *)
(* an error calls the error callback and closes, dropping what it held.    *)
(* `run` holds the locals of the conversion and the encoder's state.       *)
(***************************************************************************)
QueueLimit == 5          \* encoder.encodeQueueSize > 5
ChunkSeconds == 5        \* chunkSize = sampleRate * 5
MicrosPerSecond == 1000000

\* an encoded chunk as the encoder hands it over: byteLength and duration (20 ms)
EncodedChunkBytes == 3
EncodedChunkDuration == 20000

MaxChunks == 7           \* the longest buffer takes one chunk more than this
MaxEncodes == 9          \* encode() calls explored in one conversion

\* audioBuffer.length of the buffers tried: empty, less than a chunk, MaxChunks + 1 chunks
BufferLengths == {0, 100000, MaxChunks * ChunkSeconds * 48000 + 1}

\* Math.round(chunk.duration * audioBuffer.sampleRate / 1000000)
SamplesOf(duration, rate) == (2 * duration * rate + MicrosPerSecond) \div (2 * MicrosPerSecond)

\* resolve(v) or reject(e) of the promise: only the first of them settles it
Settled(c, outcome) ==
    IF c.promise = "pending" THEN [c EXCEPT !.promise = outcome] ELSE c

\* catch (error) { reject(error) }: the executor is through
Caught(c) == [Settled(c, "rejected") EXCEPT !.pc = "done"]

InitConvert ==
    /\ \E c \in Constructions : StartsMuxer(CallConstructor(c[1], c[2], c[3]))
    /\ \E length \in BufferLengths :
          run = [phase |-> "convert", pc |-> "loop",
                 offset |-> 0, length |-> length, chunkSize |-> sampleRate * ChunkSeconds,
                 state |-> "configured", queueSize |-> 0, pending |-> 0,
                 promise |-> "pending",
                 encoded |-> 0, delivered |-> 0, errors |-> 0, waits |-> 0]

Converting == run.phase = "convert"

\* (the loop's step forgotten)
NextOffset_Stuck(offset, chunkSize) == offset

\* offset += chunkSize
NextOffset(offset, chunkSize) == offset + chunkSize

\* an iteration that is not a wait: encoder.encode (which throws on a closed encoder),
\* offset += chunkSize, and the yield to the event loop
Feed ==
    /\ Converting /\ run.pc = "loop"
    /\ run.offset < run.length /\ ~(run.queueSize > QueueLimit)
    /\ run.encoded < MaxEncodes
    /\ run' = IF run.state = "closed" THEN Caught(run)
              ELSE [run EXCEPT !.queueSize = @ + 1,
                               !.encoded = @ + 1,
                               !.offset = NextOffset(@, run.chunkSize),
                               !.pc = "yield"]
    /\ UNCHANGED muxerVars

\* the back-pressure branch: wait 10 ms and look again
BackPressure ==
    /\ Converting /\ run.pc = "loop"
    /\ run.offset < run.length /\ run.queueSize > QueueLimit
    /\ run' = [run EXCEPT !.pc = "wait", !.waits = 1]
    /\ UNCHANGED muxerVars

\* the timer of the wait or of the yield fires: back to the loop's test
TimerFires ==
    /\ Converting /\ run.pc \in {"wait", "yield"}
    /\ run' = [run EXCEPT !.pc = "loop"]
    /\ UNCHANGED muxerVars

\* the loop is left: encoder.flush(), whose promise a closed encoder rejects at once
CallFlush ==
    /\ Converting /\ run.pc = "loop"
    /\ ~(run.offset < run.length)
    /\ run' = IF run.state = "closed" THEN Caught(run)
              ELSE [run EXCEPT !.pc = "awaitFlush"]
    /\ UNCHANGED muxerVars

\* the encoder takes one AudioData from its queue and encodes it
EncoderDequeue ==
    /\ Converting /\ run.state = "configured" /\ run.queueSize > 0
    /\ run' = [run EXCEPT !.queueSize = @ - 1, !.pending = @ + 1]
    /\ UNCHANGED muxerVars

\* the output callback, for the oldest chunk not handed over yet
Output ==
    /\ Converting /\ run.state = "configured" /\ run.pending > 0
    /\ BecomesMuxer(CallAddPacket(Harness,
                                  PacketData(EncodedChunkBytes, Len(submitted)),
                                  SamplesOf(EncodedChunkDuration, sampleRate)))
    /\ run' = [run EXCEPT !.pending = @ - 1, !.delivered = @ + 1]

\* (flush() called without await)
AwaitFlush_NotAwaited(c) == TRUE

\* await encoder.flush(): goes on when all that was queued has been output
AwaitFlush(c) == c.queueSize = 0 /\ c.pending = 0

\* what the executor does to its own state once the flush has resolved: resolve(blob)
Resumed ==
    /\ Converting /\ run.pc = "awaitFlush" /\ run.state = "configured"
    /\ AwaitFlush(run)
    /\ run' = [Settled(run, "resolved") EXCEPT !.pc = "done"]

\* the flush has resolved: muxer.getBlob() and resolve(blob)
FlushResolved ==
    /\ Resumed
    /\ BecomesMuxer(CallGetBlob(Harness))

\* the encoder fails: the error callback rejects, the encoder closes and drops its work,
\* and a flush that is awaited is rejected, which the catch turns into reject again
EncoderError ==
    /\ Converting /\ run.state = "configured"
    /\ LET closed == [Settled(run, "rejected") EXCEPT !.state = "closed",
                                                      !.queueSize = 0,
                                                      !.pending = 0,
                                                      !.errors = 1]
       IN  run' = IF run.pc = "awaitFlush" THEN Caught(closed) ELSE closed
    /\ UNCHANGED muxerVars

NextConvert ==
    \/ Feed
    \/ BackPressure
    \/ TimerFires
    \/ CallFlush
    \/ EncoderDequeue
    \/ Output
    \/ FlushResolved
    \/ EncoderError

SpecConvert == InitConvert /\ [][NextConvert]_vars

\* the same under the scheduling of the event loop and of the encoder: a timer that is
\* set fires, a continuation that can run does, the encoder goes on with queued work and
\* hands over what it has encoded; that the encoder fails is never required (the step of
\* FlushResolved is the one that changes run as Resumed says)
SpecConvertFair ==
    /\ SpecConvert
    /\ WF_vars(Feed)
    /\ WF_vars(BackPressure)
    /\ WF_vars(TimerFires)
    /\ WF_vars(CallFlush)
    /\ WF_vars(EncoderDequeue)
    /\ WF_vars(Output)
    /\ WF_run(Resumed)

(***************************************************************************)
(* Reading a page back, as a demuxer does.                                 *)
(***************************************************************************)
\* the value of the k bytes at offset off, least significant first
RECURSIVE DecodeLE(_)
DecodeLE(bytes) == IF bytes = <<>> THEN 0 ELSE Head(bytes) + 256 * DecodeLE(Tail(bytes))

FieldLE(page, off, k) == DecodeLE(SubSeq(page, off + 1, off + k))

PageHeaderType(page) == page[6]
PageGranule(page) == FieldLE(page, 6, 8)
PageSequenceNumber(page) == FieldLE(page, 18, 4)
PageChecksum(page) == SubSeq(page, 23, 26)
PageSegmentCount(page) == page[27]
PageTable(page) == SubSeq(page, 28, 27 + PageSegmentCount(page))
PagePayload(page) == SubSeq(page, 28 + PageSegmentCount(page), Len(page))

\* bit 0x02 and bit 0x04 of a header type, and the bits that are neither
HasBOS(page) == (PageHeaderType(page) \div 2) % 2 = 1
HasEOS(page) == (PageHeaderType(page) \div 4) % 2 = 1
OtherFlags(page) == PageHeaderType(page) - (IF HasBOS(page) THEN 2 ELSE 0)
                                         - (IF HasEOS(page) THEN 4 ELSE 0)

\* the packet sizes a lacing table lo..hi encodes: a packet ends at the first value
\* below 255; `open` is what an unterminated run of 255s at the end has gathered
RECURSIVE UnlaceRange(_, _, _)
UnlaceRange(table, lo, hi) ==
    IF lo > hi THEN [done |-> <<>>, open |-> 0]
    ELSE IF lo = hi
    THEN IF table[lo] < 255 THEN [done |-> <<table[lo]>>, open |-> 0]
                            ELSE [done |-> <<>>, open |-> 255]
    ELSE LET mid == (lo + hi) \div 2
             l == UnlaceRange(table, lo, mid)
             r == UnlaceRange(table, mid + 1, hi)
         IN  IF r.done = <<>> THEN [done |-> l.done, open |-> l.open + r.open]
             ELSE [done |-> l.done \o <<l.open + Head(r.done)>> \o Tail(r.done),
                   open |-> r.open]

Unlace(table) == UnlaceRange(table, 1, Len(table))

\* the sizes of the packets a page carries, in table order
PagePacketSizes(page) == Unlace(PageTable(page)).done

\* the same over pages 1..n, page by page
RECURSIVE SizesUpTo(_)
SizesUpTo(n) == IF n = 0 THEN <<>> ELSE SizesUpTo(n - 1) \o PagePacketSizes(pages[n])

\* the payloads of pages 1..n, page by page
RECURSIVE PayloadUpTo(_)
PayloadUpTo(n) == IF n = 0 THEN <<>> ELSE PayloadUpTo(n - 1) \o PagePayload(pages[n])

SubmittedSizes == [k \in 1..Len(submitted) |-> Len(submitted[k].data)]
SubmittedSamples == [k \in 1..Len(submitted) |-> submitted[k].samples]
SubmittedData == Flatten([k \in 1..Len(submitted) |-> submitted[k].data])

(***************************************************************************)
(* C1. The sequence-number fields of the pages, in emission order, are     *)
(* 0, 1, ..., N-1: strictly increasing, no gaps, no reuse, the two header  *)
(* pages included, after any calls.                                        *)
(***************************************************************************)
SequenceNumbersExact ==
    \A i \in 1..Len(pages) : PageSequenceNumber(pages[i]) = i - 1

\* a stream with a non-terminal page after the headers and a terminal page at the end
SequenceNumbersWitness ==
    /\ Len(pages) >= 4
    /\ ~emitLog[3].terminal /\ emitLog[Len(pages)].terminal
    /\ PageSequenceNumber(pages[Len(pages)]) = Len(pages) - 1

(***************************************************************************)
(* C2. A page has bit 0x02 set iff it is the first page the muxer emitted, *)
(* bit 0x04 set iff a terminal flush (flushPage(true) or getBlob) pushed   *)
(* it, and no other flag bit.                                              *)
(***************************************************************************)
FlagsExact ==
    \A i \in 1..Len(pages) :
        /\ HasBOS(pages[i]) <=> (i = 1)
        /\ HasEOS(pages[i]) <=> emitLog[i].terminal
        /\ OtherFlags(pages[i]) = 0

\* pages of all three kinds: the first, a later non-terminal one, terminal ones pushed
\* by getBlob and by flushPage(true)
FlagsWitness ==
    /\ Len(pages) >= 5
    /\ PageHeaderType(pages[1]) = 2
    /\ PageHeaderType(pages[3]) = 0
    /\ PageHeaderType(pages[4]) = 4
    /\ PageHeaderType(pages[5]) = 4
    /\ lastCall.op = "flushPage" /\ lastCall.isLast
    /\ blob # <<>>

(***************************************************************************)
(* C3. For packets of any byte length, the pending segment count is at     *)
(* most 255 in every state and every page carries at most 255 lacing       *)
(* segments.                                                               *)
(***************************************************************************)
SegmentsAtMost255 ==
    /\ segmentsInBuffer <= 255
    /\ \A i \in 1..Len(flushTrace) : flushTrace[i].segments <= 255

\* the page of a 65025-byte packet: 256 table entries behind a segment count of 0
OversizedPageState ==
    \E i \in 1..Len(pages) :
        /\ flushTrace[i].segments = 256
        /\ PageSegmentCount(pages[i]) = 0

(***************************************************************************)
(* What the calls made so far lead one to expect of page i: the packets    *)
(* passed after the call that pushed page i-1 and before the call that     *)
(* pushed page i (a page pushed while a packet is being added was pushed   *)
(* before that packet counted as passed).                                  *)
(***************************************************************************)
FirstPacketOf(i) == IF i = 1 THEN 1 ELSE emitLog[i - 1].packets + 1
LastPacketOf(i) == emitLog[i].packets

ExpectedSizesOf(i) == SubSeq(SubmittedSizes, FirstPacketOf(i), LastPacketOf(i))

\* floor(L/255) values of 255, then L mod 255
ExpectedLacing(L) == [j \in 1..(L \div 255) |-> 255] \o <<L % 255>>

ExpectedTableOf(i) ==
    LET sizes == ExpectedSizesOf(i)
    IN  Flatten([k \in 1..Len(sizes) |-> ExpectedLacing(sizes[k])])

(***************************************************************************)
(* C4. With non-negative sample counts, the granule position of each page  *)
(* is the sum of the sample counts of the packets in that page and in all  *)
(* earlier pages, and it does not decrease from page to page; a page       *)
(* flushed because a packet did not fit does not count that packet.        *)
(***************************************************************************)
GranuleIsCumulativeSum ==
    \A i \in 1..Len(pages) :
        /\ PageGranule(pages[i]) = SumRange(SubmittedSamples, 1, Len(SizesUpTo(i)))
        /\ Len(SizesUpTo(i)) = LastPacketOf(i)
        /\ i > 1 => PageGranule(pages[i - 1]) <= PageGranule(pages[i])

\* addPacket of a packet with 480 samples has just pushed a page: the page's granule
\* position is that of the packets before it
GranuleWitness ==
    /\ lastCall.op = "addPacket" /\ lastCall.size = 510
    /\ Len(pages) = lastCall.pagesBefore + 1
    /\ PageGranule(pages[Len(pages)]) > 0
    /\ granulePosition = PageGranule(pages[Len(pages)]) + 480

(***************************************************************************)
(* C5. After getBlob the packets carried by the pages, page by page and in *)
(* table order, are the identification packet, the comment packet and then *)
(* every packet passed to addPacket, each once and in submission order.    *)
(***************************************************************************)
PacketsPreserved ==
    lastCall.op = "getBlob" =>
        /\ SizesUpTo(Len(pages)) = SubmittedSizes
        /\ PayloadUpTo(Len(pages)) = SubmittedData
        /\ blob = Flatten(pages)

\* 258 packets over four pages, one of them pushed because a packet did not fit
PacketsPreservedWitness ==
    /\ lastCall.op = "getBlob"
    /\ Len(pages) = 4
    /\ Len(submitted) >= 258
    /\ Len(PagePacketSizes(pages[3])) = 255
    /\ Len(PagePacketSizes(pages[4])) = 1

(***************************************************************************)
(* C6. getBlob makes the last page of the output a page with bit 0x04 set, *)
(* whether or not anything was pending when it was called.                 *)
(***************************************************************************)
BlobEndsWithEOS ==
    lastCall.op = "getBlob" =>
        LET last == pages[Len(pages)]
        IN  /\ Len(pages) = lastCall.pagesBefore + 1
            /\ HasEOS(last)
            /\ Len(blob) >= Len(last)
            /\ SubSeq(blob, Len(blob) - Len(last) + 1, Len(blob)) = last

\* getBlob called with nothing pending, after packets and non-terminal flushes only
BlobEndsWithEOSWitness ==
    /\ lastCall.op = "getBlob"
    /\ lastCall.pendingBefore = 0
    /\ Len(submitted) > 2
    /\ \A i \in 1..(Len(pages) - 1) : ~emitLog[i].terminal
    /\ HasEOS(pages[Len(pages)])

(***************************************************************************)
(* C7. A packet of L bytes contributes floor(L/255) lacing values of 255   *)
(* and then one value L mod 255 (also when L is a multiple of 255, and     *)
(* when L = 0), as many values as the floor(L/255)+1 that addPacket        *)
(* counted for it.                                                         *)
(***************************************************************************)
LacingExact ==
    /\ \A i \in 1..Len(pages) :
          /\ PageTable(pages[i]) = ExpectedTableOf(i)
          /\ flushTrace[i].segments = Len(ExpectedTableOf(i))
          /\ PageSegmentCount(pages[i]) = Len(ExpectedTableOf(i))
    /\ segmentsInBuffer =
          SumSeq([k \in 1..Len(packetSizes) |-> (packetSizes[k] \div 255) + 1])

\* a page carrying a 510-byte packet and then an empty one
LacingWitness ==
    \E i \in 1..Len(pages) : PageTable(pages[i]) = <<255, 255, 0, 0>>

(***************************************************************************)
(* C8. A page is 27 + its segment count + the bytes of its packets long,   *)
(* and what flushPage writes fills the buffer exactly: nothing left over,  *)
(* nothing past the end.                                                   *)
(***************************************************************************)
PageSizeExact ==
    /\ error = "none"
    /\ Len(flushTrace) = Len(pages)
    /\ \A i \in 1..Len(pages) :
          /\ Len(pages[i]) = 27 + PageSegmentCount(pages[i]) + SumSeq(ExpectedSizesOf(i))
          /\ flushTrace[i].pageSize = Len(pages[i])
          /\ flushTrace[i].offset = flushTrace[i].pageSize

\* a page of two packets, 510 and 0 bytes: 27 + 4 + 510 bytes
PageSizeWitness ==
    \E i \in 1..Len(pages) :
        /\ ExpectedSizesOf(i) = <<510, 0>>
        /\ Len(pages[i]) = 541

(***************************************************************************)
(* C9. The checksum recomputed over a page with bytes 22-25 taken as zero  *)
(* (polynomial 0x04C11DB7, most significant bit first, initial value 0,    *)
(* 32 bits) is the value stored least significant byte first in bytes      *)
(* 22-25.                                                                  *)
(***************************************************************************)
\* eight steps of the shift register, one bit at a time
RECURSIVE ShiftBits(_, _)
ShiftBits(reg, k) ==
    IF k = 0 THEN reg
    ELSE ShiftBits(IF reg[1] >= 128 THEN XorWord(Shl1(reg), <<4, 193, 29, 183>>)
                                    ELSE Shl1(reg), k - 1)

\* the register after the bytes lo..hi of a message
RECURSIVE BitwiseCrc(_, _, _, _)
BitwiseCrc(reg, bytes, lo, hi) ==
    IF lo > hi THEN reg
    ELSE IF lo = hi
    THEN ShiftBits(<<XorByte(reg[1], bytes[lo]), reg[2], reg[3], reg[4]>>, 8)
    ELSE LET mid == (lo + hi) \div 2
             Rest(first) == BitwiseCrc(first, bytes, mid + 1, hi)
         IN  Then(BitwiseCrc(reg, bytes, lo, mid), Rest)

ZeroedChecksum(page) == SubSeq(page, 1, 22) \o <<0, 0, 0, 0>> \o SubSeq(page, 27, Len(page))

ChecksumOf(page) ==
    LET reg == BitwiseCrc(<<0, 0, 0, 0>>, ZeroedChecksum(page), 1, Len(page))
    IN  <<reg[4], reg[3], reg[2], reg[1]>>

ChecksumsExact ==
    \A i \in 1..Len(pages) : PageChecksum(pages[i]) = ChecksumOf(pages[i])

\* two pages beyond the headers, one with a payload, and no checksum zero
ChecksumsWitness ==
    /\ Len(pages) = 4
    /\ Len(pages[3]) > 500
    /\ \A i \in 1..Len(pages) : PageChecksum(pages[i]) # <<0, 0, 0, 0>>

(***************************************************************************)
(* C10. addPacket flushes the pending buffer first iff the pending segment *)
(* count plus the packet's floor(L/255)+1 exceeds 255; the page so pushed  *)
(* is non-terminal and holds the packets before the new one, which becomes *)
(* the first of the next buffer.  255 one-segment packets share a page;    *)
(* the 256th pushes it.                                                    *)
(***************************************************************************)
ImplicitFlushRule ==
    lastCall.op = "addPacket" =>
        LET segments == (lastCall.size \div 255) + 1
            n == Len(pages)
        IN  IF lastCall.segmentsBefore + segments > 255
            THEN /\ n = lastCall.pagesBefore + 1
                 /\ ~HasEOS(pages[n])
                 /\ SizesUpTo(n) = SubSeq(SubmittedSizes, 1, Len(submitted) - 1)
                 /\ PayloadUpTo(n) =
                       Flatten([k \in 1..(Len(submitted) - 1) |-> submitted[k].data])
                 /\ packetBuffer = <<submitted[Len(submitted)].data>>
                 /\ packetSizes = <<lastCall.size>>
                 /\ segmentsInBuffer = segments
            ELSE /\ n = lastCall.pagesBefore
                 /\ Len(packetBuffer) = lastCall.pendingBefore + 1
                 /\ segmentsInBuffer = lastCall.segmentsBefore + segments

\* the 256th one-segment packet in a row has pushed the page of the 255 before it
ImplicitFlushWitness ==
    /\ lastCall.op = "addPacket"
    /\ lastCall.segmentsBefore = 255 /\ lastCall.pendingBefore = 255
    /\ Len(pages) = lastCall.pagesBefore + 1
    /\ PageSegmentCount(pages[Len(pages)]) = 255
    /\ Len(PagePacketSizes(pages[Len(pages)])) = 255
    /\ Len(packetBuffer) = 1

(***************************************************************************)
(* C11. Right after construction two pages exist, numbered 0 and 1: the    *)
(* first carries the identification packet alone and has header type 0x02, *)
(* the second carries the comment packet alone and has header type 0; both *)
(* have granule position 0, and nothing is pending.                        *)
(***************************************************************************)
ConstructionEmitsTwoHeaderPages ==
    made = 0 =>
        /\ Len(pages) = 2
        /\ PageSequenceNumber(pages[1]) = 0 /\ PageSequenceNumber(pages[2]) = 1
        /\ PageHeaderType(pages[1]) = 2 /\ PageHeaderType(pages[2]) = 0
        /\ PagePacketSizes(pages[1]) = <<19>>
        /\ SubSeq(PagePayload(pages[1]), 1, 8) = <<79, 112, 117, 115, 72, 101, 97, 100>>
        /\ PagePacketSizes(pages[2]) = <<Len(PagePayload(pages[2]))>>
        /\ SubSeq(PagePayload(pages[2]), 1, 8) = <<79, 112, 117, 115, 84, 97, 103, 115>>
        /\ PageGranule(pages[1]) = 0 /\ PageGranule(pages[2]) = 0
        /\ packetBuffer = <<>> /\ packetSizes = <<>> /\ segmentsInBuffer = 0

\* the muxer as the constructor leaves it
ConstructionWitness ==
    /\ made = 0 /\ lastCall.op = "constructor"
    /\ Len(pages) = 2 /\ pageSequence = 2
    /\ Len(pages[1]) = 27 + 1 + 19

(***************************************************************************)
(* C12, as stated.  When getBlob is called with nothing added beyond the   *)
(* two headers, the third page is 28 bytes long: the header, one segment   *)
(* byte of value 0 and no payload, segment count 1, terminal flag set.     *)
(***************************************************************************)
EmptyStreamPageHasOneSegment ==
    (lastCall.op = "getBlob" /\ Len(submitted) = 2 /\ lastCall.pagesBefore = 2) =>
        /\ Len(pages) = 3
        /\ Len(pages[3]) = 28
        /\ PageSegmentCount(pages[3]) = 1
        /\ pages[3][28] = 0
        /\ HasEOS(pages[3])

(***************************************************************************)
(* C12, amended.  When getBlob is called with nothing added beyond the two *)
(* headers, the third page is the 27-byte header alone: segment count 0,   *)
(* no segment byte, no payload, terminal flag set.                         *)
(***************************************************************************)
EmptyStreamPageIsHeaderOnly ==
    (lastCall.op = "getBlob" /\ Len(submitted) = 2 /\ lastCall.pagesBefore = 2) =>
        /\ Len(pages) = 3
        /\ Len(pages[3]) = 27
        /\ PageSegmentCount(pages[3]) = 0
        /\ PageTable(pages[3]) = <<>> /\ PagePayload(pages[3]) = <<>>
        /\ HasEOS(pages[3]) /\ ~HasBOS(pages[3])
        /\ Len(blob) = Len(pages[1]) + Len(pages[2]) + 27

\* getBlob as the first call on a new muxer
EmptyStreamWitness ==
    /\ lastCall.op = "getBlob" /\ made = 1
    /\ Len(submitted) = 2 /\ Len(pages) = 3
    /\ PageHeaderType(pages[3]) = 4

(***************************************************************************)
(* C13. A getBlob made after an earlier getBlob with no addPacket between  *)
(* them (the blob returned last still is all the pages and nothing is      *)
(* pending) appends exactly one page: it carries no packet, has the        *)
(* terminal flag and the next sequence number, and repeats the granule     *)
(* position of the page before it; the earlier pages stay as they were.    *)
(***************************************************************************)
SecondGetBlobAppendsEmptyPage ==
    [][(/\ blob = Flatten(pages) /\ packetBuffer = <<>>
        /\ lastCall'.op = "getBlob" /\ made' = made + 1) =>
            /\ Len(pages') = Len(pages) + 1
            /\ SubSeq(pages', 1, Len(pages)) = pages
            /\ PagePacketSizes(pages'[Len(pages')]) = <<>>
            /\ PagePayload(pages'[Len(pages')]) = <<>>
            /\ HasEOS(pages'[Len(pages')])
            /\ PageSequenceNumber(pages'[Len(pages')]) =
                   PageSequenceNumber(pages[Len(pages)]) + 1
            /\ PageGranule(pages'[Len(pages')]) = PageGranule(pages[Len(pages)])
            /\ blob' = blob \o pages'[Len(pages')]]_vars

\* the state two getBlob calls in a row leave behind, after a packet with samples: two
\* terminal pages at the end, the second empty, no packet passed between them
SecondGetBlobWitness ==
    /\ lastCall.op = "getBlob" /\ lastCall.pendingBefore = 0
    /\ Len(pages) >= 4 /\ Len(submitted) > 2
    /\ emitLog[Len(pages) - 1].terminal /\ emitLog[Len(pages)].terminal
    /\ emitLog[Len(pages) - 1].packets = emitLog[Len(pages)].packets
    /\ PageGranule(pages[Len(pages)]) > 0
    /\ Len(pages[Len(pages)]) = 27
    /\ Len(blob) = Len(Flatten(pages))

(***************************************************************************)
(* C14. flushPage(false) with nothing pending leaves the finished pages,   *)
(* the page sequence number, the granule position and the pending state    *)
(* as they were; flushPage(true) with nothing pending still pushes one     *)
(* page, a terminal one.                                                   *)
(***************************************************************************)
EmptyFlushIsNoOpUnlessTerminal ==
    [][(packetBuffer = <<>> /\ lastCall'.op = "flushPage" /\ made' = made + 1) =>
          IF lastCall'.isLast
          THEN /\ Len(pages') = Len(pages) + 1
               /\ SubSeq(pages', 1, Len(pages)) = pages
               /\ HasEOS(pages'[Len(pages')])
               /\ pageSequence' = pageSequence + 1
               /\ granulePosition' = granulePosition
          ELSE /\ pages' = pages
               /\ pageSequence' = pageSequence
               /\ granulePosition' = granulePosition
               /\ packetBuffer' = packetBuffer
               /\ packetSizes' = packetSizes
               /\ segmentsInBuffer' = segmentsInBuffer]_vars

\* flushPage(false) called with nothing pending, after a packet had been added and
\* flushed
EmptyFlushWitness ==
    /\ lastCall.op = "flushPage" /\ ~lastCall.isLast
    /\ lastCall.pendingBefore = 0
    /\ Len(pages) = lastCall.pagesBefore
    /\ Len(pages) = 3 /\ pageSequence = 3 /\ granulePosition = 480

(***************************************************************************)
(* C15. Constructing a muxer with a zero or negative sample rate or        *)
(* channel count fails at construction: no muxer is produced and no header *)
(* page is emitted.                                                        *)
(***************************************************************************)
InvalidConstructionFails ==
    (sampleRate <= 0 \/ channels <= 0) => (error # "none" /\ pages = <<>>)

\* a muxer made with a non-positive argument, headers emitted, taking calls
InvalidMuxerInUse ==
    /\ sampleRate <= 0 \/ channels <= 0
    /\ error = "none" /\ Len(pages) > 2 /\ made > 0

(***************************************************************************)
(* C16. The finished pages are append-only: every step leaves the pages    *)
(* pushed so far in place, in order and byte for byte.                     *)
(***************************************************************************)
PagesAppendOnly ==
    [][/\ Len(pages') >= Len(pages)
       /\ SubSeq(pages', 1, Len(pages)) = pages]_vars

\* pages pushed by addPacket, by flushPage and by getBlob, one after the other
PagesAppendOnlyWitness ==
    /\ Len(pages) = 5
    /\ Len(PagePacketSizes(pages[3])) = 255
    /\ ~emitLog[4].terminal /\ Len(pages[4]) > 27
    /\ lastCall.op = "getBlob" /\ Len(pages[5]) = 27

(***************************************************************************)
(* C18. The packet list and the size list have the same length and the     *)
(* sizes are the packets' lengths; the pending segment count is the sum of *)
(* floor(L/255)+1 over the pending packets; after a flush that pushed a    *)
(* page nothing is pending and the count is 0 (after an addPacket that     *)
(* pushed one, only the new packet is pending).                            *)
(***************************************************************************)
PendingStateConsistent ==
    /\ Len(packetBuffer) = Len(packetSizes)
    /\ \A k \in 1..Len(packetBuffer) : packetSizes[k] = Len(packetBuffer[k])
    /\ segmentsInBuffer =
          SumSeq([k \in 1..Len(packetBuffer) |-> (Len(packetBuffer[k]) \div 255) + 1])
    /\ (lastCall.op \in {"flushPage", "getBlob"} /\ Len(pages) > lastCall.pagesBefore) =>
          (packetBuffer = <<>> /\ packetSizes = <<>> /\ segmentsInBuffer = 0)
    /\ (lastCall.op = "addPacket" /\ Len(pages) > lastCall.pagesBefore) =>
          (Len(packetBuffer) = 1 /\ segmentsInBuffer = (lastCall.size \div 255) + 1)

\* flushPage has pushed a page of two packets that held four segments
PendingResetWitness ==
    /\ lastCall.op = "flushPage"
    /\ lastCall.pendingBefore = 2 /\ lastCall.segmentsBefore = 4
    /\ Len(pages) = lastCall.pagesBefore + 1
    /\ packetBuffer = <<>> /\ segmentsInBuffer = 0

(***************************************************************************)
(* C19. In every page the segment-count byte at offset 26 is the number of *)
(* lacing entries written after the header, so that the payload starts at  *)
(* offset 27 + that byte, for every packet length, a packet that needs 256 *)
(* segments by itself included.                                            *)
(***************************************************************************)
SegmentCountByteMatchesTable ==
    \A i \in 1..Len(pages) :
        /\ PageSegmentCount(pages[i]) = flushTrace[i].segments
        /\ Len(PagePayload(pages[i])) = SumSeq(ExpectedSizesOf(i))

\* getBlob has returned a stream holding the page of a 65025-byte packet
OversizedPageInBlob ==
    /\ lastCall.op = "getBlob"
    /\ \E i \in 1..Len(pages) : flushTrace[i].segments = 256

(***************************************************************************)
(* C20, as stated.  At most one page has bit 0x04 set and no page follows  *)
(* it: after a terminal flush, further calls add no page.                  *)
(***************************************************************************)
StreamClosedAfterEOS ==
    /\ Cardinality({i \in 1..Len(pages) : HasEOS(pages[i])}) <= 1
    /\ \A i \in 1..Len(pages) : HasEOS(pages[i]) => i = Len(pages)

(***************************************************************************)
(* C20, amended.  The muxer does not close after a terminal flush: every   *)
(* terminal flush (flushPage(true), getBlob) pushes one more page with bit *)
(* 0x04 set, whether or not an earlier page has it, a later non-terminal   *)
(* flush of pending packets pushes a page without it, and the pages with   *)
(* the bit are those the terminal flushes pushed; so at most one page has  *)
(* the bit, and it is the last, as long as the one terminal flush made was *)
(* the last call that pushed a page.                                       *)
(***************************************************************************)
EosPagesFollowTerminalFlushes ==
    /\ (lastCall.op = "getBlob" \/ (lastCall.op = "flushPage" /\ lastCall.isLast)) =>
          (Len(pages) = lastCall.pagesBefore + 1 /\ HasEOS(pages[Len(pages)]))
    /\ (lastCall.op = "flushPage" /\ ~lastCall.isLast /\ lastCall.pendingBefore > 0) =>
          (Len(pages) = lastCall.pagesBefore + 1 /\ ~HasEOS(pages[Len(pages)]))
    /\ {i \in 1..Len(pages) : HasEOS(pages[i])} =
          {i \in 1..Len(emitLog) : emitLog[i].terminal}
    /\ (Len(pages) > 2 /\ \A i \in 1..(Len(pages) - 1) : ~emitLog[i].terminal
                       /\ emitLog[Len(pages)].terminal) =>
          {i \in 1..Len(pages) : HasEOS(pages[i])} = {Len(pages)}

\* a terminal page, then a page of packets flushed after it, then a second terminal page
PagesAfterEOSWitness ==
    /\ Len(pages) = 5
    /\ HasEOS(pages[3])
    /\ ~HasEOS(pages[4]) /\ Len(PagePacketSizes(pages[4])) > 0
    /\ HasEOS(pages[5])

(***************************************************************************)
(* C17. A run is non-destructive for every selected scene and sound: no    *)
(* upload overwrites or removes the item's original file, and at the end   *)
(* of the run orphanedFiles lists the originals whose document was         *)
(* repointed to a new file, and no other.                                  *)
(***************************************************************************)
OriginalsKeptAndListed ==
    /\ \A f \in run.originals : f \in DOMAIN run.files /\ run.files[f] = "original"
    /\ run.phase = "done" =>
          {FileOf(run.orphanedFiles[i]) : i \in 1..Len(run.orphanedFiles)} = run.repointed

\* the same holds of the runs in which no selected item has a format that the
\* analysis calls optimized (.webp, .webm, .ogg)
KeptAndListedWhenUnoptimized ==
    (\A f \in run.originals : ExtensionOf(f) \notin {Webp, Webm, Ogg}) =>
        OriginalsKeptAndListed

\* a run is over that repointed a scene and listed its original
RunDoneWitness ==
    /\ run.phase = "done"
    /\ Len(run.orphanedFiles) = 2
    /\ run.repointed # {}

(***************************************************************************)
(* C21. In a run with AudioEncoder available a failing item does not stop  *)
(* the batch: the selected scenes and then the selected sounds are each    *)
(* attempted once, in order; the progress value rises by one per item,     *)
(* failed or not; when the handler is through, isOptimizing is false and   *)
(* the progress value is the number of selected items.                     *)
(***************************************************************************)
BatchRunsThrough ==
    ~run.skipped =>
        /\ run.phase \in {"scenes", "audio"} =>
              /\ run.isOptimizing
              /\ run.progressValue = Len(run.attempted)
              /\ run.attempted = SubSeq(run.targets, 1, Len(run.attempted))
              /\ Len(run.attempted) + Len(run.scenes) + Len(run.audio) = Len(run.targets)
        /\ run.phase = "done" =>
              /\ ~run.isOptimizing
              /\ run.attempted = run.targets
              /\ run.progressValue = Len(run.targets)
              /\ run.progressMax = Len(run.targets)

\* a run of three items is through, two of which failed
BatchWitness ==
    /\ run.phase = "done" /\ ~run.skipped
    /\ Len(run.targets) = 3 /\ Len(run.attempted) = 3
    /\ run.failures = 2

(***************************************************************************)
(* C22. At most one optimization run is in progress at a time: while       *)
(* isOptimizing is true no run starts, so orphanedFiles of the running     *)
(* pass is only added to and its progress is not put back.                 *)
(***************************************************************************)
SingleRunAtATime ==
    [][run.isOptimizing =>
          /\ run'.started = run.started
          /\ Len(run'.orphanedFiles) >= Len(run.orphanedFiles)
          /\ SubSeq(run'.orphanedFiles, 1, Len(run.orphanedFiles)) = run.orphanedFiles
          /\ run'.progressMax = run.progressMax]_vars

(***************************************************************************)
(* C23. In _convertAudioToOggFast muxer.getBlob() is called only after     *)
(* encoder.flush() has resolved: whatever way the output callbacks fall    *)
(* between the loop's awaits, every chunk encoded has been passed to       *)
(* addPacket, in the order of the callbacks, before the end-of-stream page *)
(* is written, and addPacket is not called after getBlob.                  *)
(***************************************************************************)
FlushPrecedesBlob ==
    Converting =>
        /\ blob # <<>> => lastCall.op = "getBlob"
        /\ lastCall.op = "getBlob" =>
              /\ run.delivered = run.encoded
              /\ Len(submitted) = 2 + run.delivered
              /\ \A k \in 3..Len(submitted) :
                    submitted[k].data = PacketData(EncodedChunkBytes, k - 1)
              /\ emitLog[Len(emitLog)] = [terminal |-> TRUE, packets |-> Len(submitted)]
              /\ HasEOS(pages[Len(pages)])
              /\ \A i \in 1..(Len(pages) - 1) : ~HasEOS(pages[i])
              /\ PayloadUpTo(Len(pages)) = SubmittedData

\* a conversion that met back-pressure has resolved with every chunk in the stream
FlushedBlobWitness ==
    /\ Converting /\ run.promise = "resolved"
    /\ run.waits = 1
    /\ run.delivered = MaxChunks + 1
    /\ lastCall.op = "getBlob"

(***************************************************************************)
(* C24. The promise _convertAudioToOggFast returns settles, once and for   *)
(* good, for every buffer of finite length: each iteration that is not a   *)
(* back-pressure wait moves offset on by the chunk size, so the loop ends   *)
(* as the encoder's queue is worked off, and an encoder error ends in      *)
(* rejection, not in a wait without end.                                   *)
(***************************************************************************)
PromiseSettlesOnce ==
    \/ <>[](run.promise = "resolved")
    \/ <>[](run.promise = "rejected")

\* the encoder failed while the flush was awaited, after a back-pressure wait, and the
\* promise is rejected
RejectedOnErrorWitness ==
    /\ Converting /\ run.promise = "rejected" /\ run.pc = "done"
    /\ run.errors = 1 /\ run.waits = 1
    /\ run.encoded = MaxChunks + 1

====
